---- MODULE Spec2Model ----
(***************************************************************************)
(* Resource adapters of internal/service/sesv2/tenant.go: the SESv2 Tenant *)
(* resource (plugin framework) and the Clean Rooms ConfiguredTable         *)
(* resource (plugin SDK v2), each reconciling one record held by the       *)
(* engine with one remote API.  One behaviour follows one resource         *)
(* instance of either type; the adapters share no state.                   *)
(***************************************************************************)
EXTENDS Integers, Sequences, FiniteSets, TLC

VARIABLES
    resType,    \* type of the resource instance: "Tenant" or "ConfiguredTable"
    state,      \* the engine's record of the instance: <<>> (absent) or <<record>>
    tenants,    \* remote SESv2 tenants (set of awstypes.Tenant, keyed by TenantName)
    tables,     \* remote Clean Rooms configured tables (set, keyed by Id)
    nextId,     \* next identifier the remote APIs hand out
    last        \* the last operation: what it was given and how it ended

vars == <<resType, state, tenants, tables, nextId, last>>

----------------------------------------------------------------------------
(* Bounds *)

MaxTenants == 2 \* tenants the remote creates in one behaviour
MaxTables == 1  \* configured tables the remote creates in one behaviour
MaxPages == 2   \* pages of ListTenants of which the service may fail one

----------------------------------------------------------------------------
(* Values *)

Nil == <<>>                         \* nil pointer, absent record
Ptr(v) == <<v>>                     \* non-nil pointer
Deref(p) == p[1]

TenantNames == {"t1", "t2"}
SendingStatuses == {"ENABLED", "DISABLED"}
PageSizes == {1, 2}                 \* tenants in a full page of ListTenants
\* Instants of the remote clock (seconds, nanoseconds).  No attribute of a
\* configured table's record ever holds one of the table's times, and the
\* Clean Rooms clock is kept at one instant.
Times == [sec : {1, 2}, nsec : {0, 500}]
Earliest == CHOOSE t \in Times : \A u \in Times : t.sec <= u.sec /\ t.nsec <= u.nsec
ZeroTime == [sec |-> 0, nsec |-> 0]

IdOf(n) == "id-" \o ToString(n)
TenantArnOf(id) == "arn:aws:ses:tenant/" \o id

\* aws.ToString / aws.ToTime: the zero value for a nil pointer
AwsToString(p) == IF p = Nil THEN "" ELSE Deref(p)
AwsToTime(p) == IF p = Nil THEN ZeroTime ELSE Deref(p)

\* time.Time.Format(time.RFC3339): second precision, the fraction is dropped
FormatRFC3339(t) == "T" \o ToString(t.sec) \o "Z"

----------------------------------------------------------------------------
(* Errors.  kind: "nil" (no error), "NotFoundException" (the service's      *)
(* not-found exception), "retry.NotFoundError", "EmptyResultError",         *)
(* "Other" (any other API or transport error).                              *)

NoErr == "nil"

\* errs.IsA[*awstypes.NotFoundException](err); wrapping keeps the chain
IsNotFoundException(err) == err = "NotFoundException"

\* tfresource.NotFound(err): a *retry.NotFoundError or an *EmptyResultError
NotFound(err) == err \in {"retry.NotFoundError", "EmptyResultError"}

----------------------------------------------------------------------------
(* Remote SESv2 API *)

TenantByName(name) == {t \in tenants : t.TenantName = name}

\* conn.GetTenant: fault is what the transport or service does to this call;
\* the service rejects an empty name
GetTenant(name, fault) ==
    IF fault = "error" \/ name = "" THEN [out |-> Nil, err |-> "Other"]
    ELSE IF TenantByName(name) = {} THEN [out |-> Nil, err |-> "NotFoundException"]
    ELSE IF fault = "nilOut" THEN [out |-> Nil, err |-> NoErr]
    ELSE IF fault = "nilPayload" THEN [out |-> Ptr([Tenant |-> Nil]), err |-> NoErr]
    ELSE [out |-> Ptr([Tenant |-> Ptr(CHOOSE t \in TenantByName(name) : TRUE)]), err |-> NoErr]

\* A finder that returns the service's error as it is
FindTenantByNameRaw(name, fault) ==
    LET r == GetTenant(name, fault) IN
    IF r.err # NoErr THEN [out |-> Nil, err |-> r.err]
    ELSE IF r.out = Nil \/ Deref(r.out).Tenant = Nil
        THEN [out |-> Nil, err |-> "EmptyResultError"]
    ELSE [out |-> Deref(r.out).Tenant, err |-> NoErr]

\* FindTenantByName
FindTenantByName(name, fault) ==
    LET r == GetTenant(name, fault) IN
    IF r.err # NoErr THEN
        IF IsNotFoundException(r.err)
        THEN [out |-> Nil, err |-> "retry.NotFoundError"]
        ELSE [out |-> Nil, err |-> r.err]
    ELSE IF r.out = Nil \/ Deref(r.out).Tenant = Nil
        THEN [out |-> Nil, err |-> "EmptyResultError"]
    ELSE [out |-> Deref(r.out).Tenant, err |-> NoErr]

\* conn.CreateTenant.  The service creates the tenant unless the call fails or
\* the name is taken; "nilOut" and "nilPayload" are successful calls whose output
\* lacks the payload.
CreateTenant(name, fault, now) ==
    LET t == [TenantId |-> IdOf(nextId), TenantArn |-> TenantArnOf(IdOf(nextId)),
              TenantName |-> name, CreatedTimestamp |-> now,
              SendingStatus |-> "ENABLED"]
        made == tenants \cup {t}
    IN  IF fault = "error" \/ TenantByName(name) # {}
        THEN [out |-> Nil, err |-> "Other", tenants |-> tenants, nextId |-> nextId]
        ELSE IF fault = "nilOut"
        THEN [out |-> Nil, err |-> NoErr, tenants |-> made, nextId |-> nextId + 1]
        ELSE [out |-> Ptr([TenantId |-> IF fault = "nilPayload" THEN Nil ELSE Ptr(t.TenantId),
                           TenantArn |-> Ptr(t.TenantArn),
                           TenantName |-> Ptr(t.TenantName),
                           CreatedTimestamp |-> Ptr(t.CreatedTimestamp),
                           SendingStatus |-> t.SendingStatus]),
              err |-> NoErr, tenants |-> made, nextId |-> nextId + 1]

\* conn.DeleteTenant
DeleteTenant(name, fault) ==
    IF fault = "error" \/ name = "" THEN [err |-> "Other", tenants |-> tenants]
    ELSE IF TenantByName(name) = {} THEN [err |-> "NotFoundException", tenants |-> tenants]
    ELSE [err |-> NoErr, tenants |-> tenants \ TenantByName(name)]

RECURSIVE TenantsInOrder(_)
\* The remote's tenants in the order ListTenants reports them, from the n-th
\* identifier handed out
TenantsInOrder(n) ==
    IF n >= nextId THEN <<>>
    ELSE LET here == {t \in tenants : t.TenantId = IdOf(n)}
         IN  (IF here = {} THEN <<>> ELSE <<CHOOSE t \in here : TRUE>>)
             \o TenantsInOrder(n + 1)

\* conn.ListTenants: the page of at most pageSize tenants that follows the
\* position token, and the token of the next page when there is one
ListTenants(token, pageSize, fault) ==
    LET all == TenantsInOrder(1)
        from == IF token = Nil THEN 0 ELSE Deref(token)
        to == IF from + pageSize < Len(all) THEN from + pageSize ELSE Len(all)
    IN  IF fault = "error" THEN [out |-> Nil, err |-> "Other"]
        ELSE [out |-> Ptr([Tenants |-> SubSeq(all, from + 1, to),
                           NextToken |-> IF to < Len(all) THEN Ptr(to) ELSE Nil]),
              err |-> NoErr]

\* The fault a handler's remote call meets
FaultAt(fault, call) == IF fault.call = call THEN fault.kind ELSE "ok"

----------------------------------------------------------------------------
(* Remote Clean Rooms API *)

TableNames == {"n1", "n2"}
Descriptions == {"", "d1"}
ColumnSets == {{"c1", "c2"}}
OtherColumnSets == {{"c1"}}
AnalysisMethods == {"DIRECT_QUERY", "AGGREGATION"}
TableRefs == {<<[database_name |-> "db", table_name |-> "tb"]>>}
TagSets == {"", "k=v"}

TableArnOf(id) == "arn:aws:cleanrooms:configuredtable/" \o id

TableById(tbls, id) == {c \in tbls : c.Id = id}

\* conn.GetConfiguredTable, on the store tbls
GetConfiguredTable(tbls, id, fault) ==
    IF fault = "error" THEN [out |-> Nil, err |-> "Other"]
    ELSE IF TableById(tbls, id) = {} THEN [out |-> Nil, err |-> "ResourceNotFoundException"]
    ELSE IF fault = "nilOut" THEN [out |-> Nil, err |-> NoErr]
    ELSE IF fault = "nilPayload" THEN [out |-> Ptr([ConfiguredTable |-> Nil]), err |-> NoErr]
    ELSE [out |-> Ptr([ConfiguredTable |-> Ptr(CHOOSE c \in TableById(tbls, id) : TRUE)]),
          err |-> NoErr]

\* conn.CreateConfiguredTable, on the store tbls
CreateConfiguredTable(input, fault, now, tbls) ==
    LET c == [Id |-> IdOf(nextId), Arn |-> TableArnOf(IdOf(nextId)),
              Name |-> input.Name, Description |-> AwsToString(input.Description),
              AllowedColumns |-> input.AllowedColumns,
              AnalysisMethod |-> input.AnalysisMethod,
              TableReference |-> input.TableReference,
              CreateTime |-> now, UpdateTime |-> now]
        made == tbls \cup {c}
    IN  IF fault = "error"
        THEN [out |-> Nil, err |-> "Other", tables |-> tbls, nextId |-> nextId]
        ELSE IF fault = "nilOut"
        THEN [out |-> Nil, err |-> NoErr, tables |-> made, nextId |-> nextId + 1]
        ELSE IF fault = "nilPayload"
        THEN [out |-> Ptr([ConfiguredTable |-> Nil]), err |-> NoErr,
              tables |-> made, nextId |-> nextId + 1]
        ELSE [out |-> Ptr([ConfiguredTable |-> Ptr(c)]), err |-> NoErr,
              tables |-> made, nextId |-> nextId + 1]

\* conn.UpdateConfiguredTable: a nil field of the input leaves the table's
\* field alone
UpdateConfiguredTable(input, fault, now) ==
    LET id == input.ConfiguredTableIdentifier
        upd(c) == [c EXCEPT
            !.Name = IF input.Name = Nil THEN @ ELSE Deref(input.Name),
            !.Description = IF input.Description = Nil THEN @ ELSE Deref(input.Description),
            !.AnalysisMethod = IF input.AnalysisMethod = Nil THEN @
                               ELSE Deref(input.AnalysisMethod),
            !.AllowedColumns = IF input.AllowedColumns = Nil THEN @
                               ELSE Deref(input.AllowedColumns),
            !.TableReference = IF input.TableReference = Nil THEN @
                               ELSE Deref(input.TableReference),
            !.UpdateTime = now]
    IN  IF fault = "error" THEN [err |-> "Other", tables |-> tables]
        ELSE IF TableById(tables, id) = {}
        THEN [err |-> "ResourceNotFoundException", tables |-> tables]
        ELSE [err |-> NoErr,
              tables |-> (tables \ TableById(tables, id))
                         \cup {upd(c) : c \in TableById(tables, id)}]

\* conn.DeleteConfiguredTable
DeleteConfiguredTable(id, fault) ==
    IF fault = "error" THEN [err |-> "Other", tables |-> tables]
    ELSE IF TableById(tables, id) = {}
    THEN [err |-> "ResourceNotFoundException", tables |-> tables]
    ELSE [err |-> NoErr, tables |-> tables \ TableById(tables, id)]

----------------------------------------------------------------------------
(* Tenant adapter *)

\* resourceTenantModel with every attribute null
NullTenantModel ==
    [arn |-> "", created_timestamp |-> "", id |-> "", sending_status |-> "",
     tenant_name |-> ""]

\* flex.Flatten(out, &plan, WithFieldNamePrefix("Tenant"), ignoring
\* CreatedTimestamp and Tags): TenantId -> ID, TenantArn -> ARN by the prefix
FlattenCreateTenantOutput(out, plan) ==
    [plan EXCEPT !.id = AwsToString(out.TenantId),
                 !.arn = AwsToString(out.TenantArn),
                 !.tenant_name = AwsToString(out.TenantName),
                 !.sending_status = out.SendingStatus]

\* flex.Flatten(out, &state, ignoring Tags and CreatedTimestamp), no prefix:
\* TenantId and TenantArn match no field of the model and are dropped
FlattenTenant(out, st) ==
    [st EXCEPT !.tenant_name = out.TenantName,
               !.sending_status = out.SendingStatus]

\* A Create without line 135: created_timestamp is left as Flatten left it
TenantCreateResultUnstamped(plan, r) ==
    IF r.err # NoErr THEN [diag |-> "error", err |-> r.err, state |-> Nil]
    ELSE IF r.out = Nil \/ Deref(r.out).TenantId = Nil
        THEN [diag |-> "error", err |-> "empty output", state |-> Nil]
    ELSE LET out == Deref(r.out)
             p == FlattenCreateTenantOutput(out, plan)
         IN  [diag |-> "none", err |-> NoErr,
              state |-> Ptr([p EXCEPT
                  !.id = AwsToString(out.TenantId),
                  !.arn = AwsToString(out.TenantArn)])]

\* A Create whose line 125 tests out alone, not out.TenantId
TenantCreateResultUnchecked(plan, r) ==
    IF r.err # NoErr THEN [diag |-> "error", err |-> r.err, state |-> Nil]
    ELSE IF r.out = Nil
        THEN [diag |-> "error", err |-> "empty output", state |-> Nil]
    ELSE LET out == Deref(r.out)
             p == FlattenCreateTenantOutput(out, plan)
         IN  [diag |-> "none", err |-> NoErr,
              state |-> Ptr([p EXCEPT
                  !.id = AwsToString(out.TenantId),
                  !.arn = AwsToString(out.TenantArn),
                  !.created_timestamp = FormatRFC3339(AwsToTime(out.CreatedTimestamp))])]

\* resourceTenant.Create, given the CreateTenant response
TenantCreateResult(plan, r) ==
    IF r.err # NoErr THEN [diag |-> "error", err |-> r.err, state |-> Nil]
    ELSE IF r.out = Nil \/ Deref(r.out).TenantId = Nil
        THEN [diag |-> "error", err |-> "empty output", state |-> Nil]
    ELSE LET out == Deref(r.out)
             p == FlattenCreateTenantOutput(out, plan)
         IN  [diag |-> "none", err |-> NoErr,
              state |-> Ptr([p EXCEPT
                  !.id = AwsToString(out.TenantId),
                  !.arn = AwsToString(out.TenantArn),
                  !.created_timestamp = FormatRFC3339(AwsToTime(out.CreatedTimestamp))])]

\* A Read whose line 179 formats with time.RFC3339Nano: the fraction is kept
TenantReadResultNano(st, f) ==
    IF f.out = Nil THEN [diag |-> "panic", state |-> Ptr(st)]
    ELSE IF NotFound(f.err) THEN [diag |-> "warning", state |-> Nil]
    ELSE IF f.err # NoErr THEN [diag |-> "error", state |-> Ptr(st)]
    ELSE LET out == Deref(f.out)
             t == AwsToTime(Ptr(out.CreatedTimestamp))
             s == [st EXCEPT !.created_timestamp =
                      IF t.nsec = 0 THEN FormatRFC3339(t)
                      ELSE "T" \o ToString(t.sec) \o "." \o ToString(t.nsec) \o "Z"]
         IN  [diag |-> "none", state |-> Ptr(FlattenTenant(out, s))]

\* resourceTenant.Read, given the FindTenantByName result.  Line 167
\* dereferences out before err is looked at: a nil out is a panic.
TenantReadResult(st, f) ==
    IF f.out = Nil THEN [diag |-> "panic", state |-> Ptr(st)]
    ELSE IF NotFound(f.err) THEN [diag |-> "warning", state |-> Nil]
    ELSE IF f.err # NoErr THEN [diag |-> "error", state |-> Ptr(st)]
    ELSE LET out == Deref(f.out)
             s == [st EXCEPT !.created_timestamp =
                      FormatRFC3339(AwsToTime(Ptr(out.CreatedTimestamp)))]
         IN  [diag |-> "none", state |-> Ptr(FlattenTenant(out, s))]

\* A Delete without the not-found branch of lines 302-305
TenantDeleteResultStrict(err) ==
    IF err # NoErr THEN "error" ELSE "none"

\* resourceTenant.Delete, given the DeleteTenant error
TenantDeleteResult(err) ==
    IF err # NoErr
    THEN IF IsNotFoundException(err) THEN "none" ELSE "error"
    ELSE "none"

RECURSIVE sweepTenantsKeepingFrom(_, _, _, _, _)
\* A sweep loop that returns what it gathered when a page fetch fails
sweepTenantsKeepingFrom(token, pageNo, sweepResources, pageSize, failAt) ==
    LET page == ListTenants(token, pageSize,
                            IF pageNo = failAt THEN "error" ELSE "ok")
    IN  IF page.err # NoErr
        THEN [handles |-> sweepResources, err |-> page.err, pages |-> pageNo]
        ELSE LET out == Deref(page.out)
                 got == sweepResources
                        \o [i \in 1..Len(out.Tenants) |->
                               [id |-> out.Tenants[i].TenantId]]
             IN  IF out.NextToken # Nil
                 THEN sweepTenantsKeepingFrom(out.NextToken, pageNo + 1, got,
                                              pageSize, failAt)
                 ELSE [handles |-> got, err |-> NoErr, pages |-> pageNo]

\* A sweep that returns what it gathered when a page fetch fails
sweepTenantsKeeping(pageSize, failAt) ==
    sweepTenantsKeepingFrom(Nil, 1, <<>>, pageSize, failAt)

RECURSIVE sweepTenantsFrom(_, _, _, _, _)
\* sweepTenants, one turn of the loop over pages.HasMorePages(): the page is
\* fetched, a failure returns nil and the error, and every tenant of the page
\* adds a handle that holds the attribute id = TenantId
sweepTenantsFrom(token, pageNo, sweepResources, pageSize, failAt) ==
    LET page == ListTenants(token, pageSize,
                            IF pageNo = failAt THEN "error" ELSE "ok")
    IN  IF page.err # NoErr
        THEN [handles |-> <<>>, err |-> page.err, pages |-> pageNo]
        ELSE LET out == Deref(page.out)
                 got == sweepResources
                        \o [i \in 1..Len(out.Tenants) |->
                               [id |-> out.Tenants[i].TenantId]]
             IN  IF out.NextToken # Nil
                 THEN sweepTenantsFrom(out.NextToken, pageNo + 1, got,
                                       pageSize, failAt)
                 ELSE [handles |-> got, err |-> NoErr, pages |-> pageNo]

\* sweepTenants: the service serves pages of pageSize tenants and fails the
\* fetch of page failAt (0: none)
sweepTenants(pageSize, failAt) ==
    sweepTenantsFrom(Nil, 1, <<>>, pageSize, failAt)

\* The record a sweep handle gives to Delete: the handle's attributes, every
\* other attribute null
SweepState(handle) ==
    [k \in DOMAIN NullTenantModel |->
        IF k \in DOMAIN handle THEN handle[k] ELSE NullTenantModel[k]]

----------------------------------------------------------------------------
(* ConfiguredTable adapter.  d is the schema.ResourceData of the call:      *)
(* old is the prior state, cur the values d.Get returns and d.Set writes    *)
(* (cur.id is d.Id()), isNew is d.IsNewResource().                          *)

NullTable ==
    [id |-> "", arn |-> "", name |-> "", description |-> "", allowed_columns |-> {},
     analysis_method |-> "", create_time |-> "", update_time |-> "",
     table_reference |-> <<>>, tags |-> "", tags_all |-> ""]

TableAttrs == DOMAIN NullTable \ {"id"}

HasChange(d, k) == d.old[k] # d.cur[k]
HasChanges(d, keys) == \E k \in keys : HasChange(d, k)
\* A HasChangesExcept that excepts nothing
HasChangesExceptNone(d, keys) == \E k \in TableAttrs : HasChange(d, k)
HasChangesExcept(d, keys) == \E k \in TableAttrs \ keys : HasChange(d, k)

\* An expandAnalysisMethod that passes every value on
expandAnalysisMethodAny(analysisMethod) ==
    [v |-> analysisMethod, err |-> NoErr]

\* expandAnalysisMethod
expandAnalysisMethod(analysisMethod) ==
    IF analysisMethod = "DIRECT_QUERY"
    THEN [v |-> "DIRECT_QUERY", err |-> NoErr]
    ELSE [v |-> "DIRECT_QUERY", err |-> "Invalid analysis method"]

\* expandTableReference
expandTableReference(data) ==
    [member |-> "Glue", DatabaseName |-> data[1].database_name,
     TableName |-> data[1].table_name]

\* flattenTableReference
flattenTableReference(tableReference) ==
    IF tableReference.member = "Glue"
    THEN <<[database_name |-> tableReference.DatabaseName,
            table_name |-> tableReference.TableName]>>
    ELSE <<>>

\* d.Set of a *time.Time on a TypeString attribute (line 687): the SDK's field
\* writer decodes only strings into a string attribute, so Set returns an
\* error, which the call site drops, and the attribute keeps its value
SetTime(attr, p) == attr

\* findConfiguredTableByID: the API's error is returned as it is
findConfiguredTableByID(tbls, id, fault) ==
    LET r == GetConfiguredTable(tbls, id, fault) IN
    IF r.err # NoErr THEN [out |-> Nil, err |-> r.err]
    ELSE IF r.out = Nil \/ Deref(r.out).ConfiguredTable = Nil
        THEN [out |-> Nil, err |-> "EmptyResultError"]
    ELSE [out |-> r.out, err |-> NoErr]

\* A Read that clears the identifier on every error before it returns it
resourceConfiguredTableReadDropping(d, f) ==
    IF ~d.isNew /\ NotFound(f.err)
    THEN [diag |-> "none", d |-> [d EXCEPT !.cur.id = ""]]
    ELSE IF f.err # NoErr THEN [diag |-> "error", d |-> [d EXCEPT !.cur.id = ""]]
    ELSE LET configuredTable == Deref(Deref(f.out).ConfiguredTable) IN
         [diag |-> "none",
          d |-> [d EXCEPT
              !.cur.arn = configuredTable.Arn,
              !.cur.name = configuredTable.Name,
              !.cur.description = configuredTable.Description,
              !.cur.allowed_columns = configuredTable.AllowedColumns,
              !.cur.analysis_method = configuredTable.AnalysisMethod,
              !.cur.create_time = SetTime(@, Ptr(configuredTable.CreateTime)),
              !.cur.table_reference = flattenTableReference(configuredTable.TableReference)]]

\* resourceConfiguredTableRead, given the finder's result
resourceConfiguredTableRead(d, f) ==
    IF ~d.isNew /\ NotFound(f.err)
    THEN [diag |-> "none", d |-> [d EXCEPT !.cur.id = ""]]
    ELSE IF f.err # NoErr THEN [diag |-> "error", d |-> d]
    ELSE LET configuredTable == Deref(Deref(f.out).ConfiguredTable) IN
         [diag |-> "none",
          d |-> [d EXCEPT
              !.cur.arn = configuredTable.Arn,
              !.cur.name = configuredTable.Name,
              !.cur.description = configuredTable.Description,
              !.cur.allowed_columns = configuredTable.AllowedColumns,
              !.cur.analysis_method = configuredTable.AnalysisMethod,
              !.cur.create_time = SetTime(@, Ptr(configuredTable.CreateTime)),
              !.cur.table_reference = flattenTableReference(configuredTable.TableReference)]]

\* resourceConfiguredTableCreate
resourceConfiguredTableCreate(d, fault, now) ==
    LET am == expandAnalysisMethod(d.cur.analysis_method)
        input == [Name |-> d.cur.name,
                  AllowedColumns |-> d.cur.allowed_columns,
                  TableReference |-> expandTableReference(d.cur.table_reference),
                  Tags |-> d.cur.tags,
                  AnalysisMethod |-> am.v,
                  Description |-> IF d.cur.description # ""
                                  THEN Ptr(d.cur.description) ELSE Nil]
        r == CreateConfiguredTable(input, FaultAt(fault, "Create"), now, tables)
    IN  IF am.err # NoErr
        THEN [diag |-> "error", err |-> am.err, d |-> d, tables |-> tables,
              nextId |-> nextId, calls |-> <<>>]
        ELSE IF r.err # NoErr
        THEN [diag |-> "error", err |-> r.err, d |-> d, tables |-> r.tables,
              nextId |-> r.nextId, calls |-> <<"CreateConfiguredTable">>]
        ELSE IF r.out = Nil \/ Deref(r.out).ConfiguredTable = Nil
        THEN [diag |-> "error", err |-> "empty output", d |-> d, tables |-> r.tables,
              nextId |-> r.nextId, calls |-> <<"CreateConfiguredTable">>]
        ELSE LET d1 == [d EXCEPT !.cur.id = Deref(Deref(r.out).ConfiguredTable).Id]
                 f == findConfiguredTableByID(r.tables, d1.cur.id, FaultAt(fault, "Get"))
                 rd == resourceConfiguredTableRead(d1, f)
             IN  [diag |-> rd.diag, err |-> f.err, d |-> rd.d, tables |-> r.tables,
                  nextId |-> r.nextId,
                  calls |-> <<"CreateConfiguredTable", "GetConfiguredTable">>]

\* An input that also carries allowed_columns when it changed
UpdateInputWithColumns(d) ==
    [ConfiguredTableIdentifier |-> d.cur.id,
     Description |-> IF HasChanges(d, {"description"})
                     THEN Ptr(d.cur.description) ELSE Nil,
     Name |-> IF HasChanges(d, {"name"}) THEN Ptr(d.cur.name) ELSE Nil,
     AnalysisMethod |-> Nil,
     AllowedColumns |-> IF HasChanges(d, {"allowed_columns"})
                        THEN Ptr(d.cur.allowed_columns) ELSE Nil,
     TableReference |-> Nil]

\* The cleanrooms.UpdateConfiguredTableInput built at lines 701-711: the
\* identifier, and Description and Name when they changed; every other field
\* of the input is left nil
UpdateInput(d) ==
    [ConfiguredTableIdentifier |-> d.cur.id,
     Description |-> IF HasChanges(d, {"description"})
                     THEN Ptr(d.cur.description) ELSE Nil,
     Name |-> IF HasChanges(d, {"name"}) THEN Ptr(d.cur.name) ELSE Nil,
     AnalysisMethod |-> Nil,
     AllowedColumns |-> Nil,
     TableReference |-> Nil]

\* resourceConfiguredTableUpdate, line 719: the Read that ends the handler
ReadAfterUpdate(d, tbls, fault, calls, sent) ==
    LET f == findConfiguredTableByID(tbls, d.cur.id, FaultAt(fault, "Get")) IN
    LET rd == resourceConfiguredTableRead(d, f) IN
    [diag |-> rd.diag, err |-> f.err, d |-> rd.d, tables |-> tbls,
     calls |-> calls \o <<"GetConfiguredTable">>, sent |-> sent]

\* resourceConfiguredTableUpdate
resourceConfiguredTableUpdate(d, fault, now) ==
    IF HasChangesExcept(d, {"tags", "tags_all"})
    THEN LET input == UpdateInput(d) IN
         LET r == UpdateConfiguredTable(input, FaultAt(fault, "Update"), now) IN
         IF r.err # NoErr
         THEN [diag |-> "error", err |-> r.err, d |-> d, tables |-> r.tables,
               calls |-> <<"UpdateConfiguredTable">>, sent |-> Ptr(input)]
         ELSE ReadAfterUpdate(d, r.tables, fault, <<"UpdateConfiguredTable">>,
                              Ptr(input))
    ELSE ReadAfterUpdate(d, tables, fault, <<>>, Nil)

\* resourceConfiguredTableDelete, given the DeleteConfiguredTable error
resourceConfiguredTableDelete(err) ==
    IF err # NoErr THEN "error" ELSE "none"

\* What the engine keeps of d once the call returns: nothing without an id
StateOf(d) == IF d.cur.id = "" THEN Nil ELSE Ptr(d.cur)

\* The configurations a user can write
TablePlans ==
    {[NullTable EXCEPT !.name = n, !.description = ds, !.allowed_columns = cols,
                       !.analysis_method = am, !.table_reference = ref,
                       !.tags = tg, !.tags_all = tg] :
        n \in TableNames, ds \in Descriptions, cols \in ColumnSets,
        am \in AnalysisMethods, ref \in TableRefs, tg \in TagSets}

----------------------------------------------------------------------------
(* Operations *)

\* fault is what the remote did to the operation's calls, req the record the
\* operation was given (the plan of a Create or an Update, the record of a
\* Delete), err the error the handler met, calls the remote calls it issued,
\* sent the input of its UpdateConfiguredTable call, prev (of a Read) the
\* operation the Read follows, handles (of a sweep) the handles it returned
Outcome(op, fault, diag, err, calls, req, sent) ==
    [op |-> op, fault |-> fault, diag |-> diag, err |-> err, calls |-> calls,
     req |-> req, sent |-> sent, handles |-> <<>>,
     prev |-> IF op # "Read" THEN "-"
              ELSE IF last.op \in {"Create", "Import"} THEN last.op ELSE "other"]

\* What the remote can do to a call: answer, fail, or report success with no
\* output or with an output that lacks the payload
CreateFaults == {"ok", "error", "nilOut", "nilPayload"}
GetFaults == {"ok", "error", "nilOut", "nilPayload"}
DeleteFaults == {"ok", "error"}

\* A handler that issues several remote calls returns at the first that
\* fails: one fault, at one of its calls, covers every outcome
Faults(call, kinds) == [call : {call}, kind : kinds \ {"ok"}]
NoFault == [call |-> "none", kind |-> "ok"]
TenantCreateFaults == {NoFault} \cup Faults("Create", CreateFaults)
TenantGetFaults == {NoFault} \cup Faults("Get", GetFaults)
TenantDeleteFaults == {NoFault} \cup Faults("Delete", DeleteFaults)
TableDeleteFaults == {NoFault} \cup Faults("Delete", DeleteFaults)
TableGetFaults == {NoFault} \cup Faults("Get", GetFaults)
TableCreateFaults ==
    {NoFault} \cup Faults("Create", CreateFaults)
              \cup Faults("Get", GetFaults \ {"nilPayload"})
TableUpdateFaults ==
    {NoFault} \cup Faults("Update", DeleteFaults) \cup Faults("Get", {"error"})

\* The remote calls a fault can be met at
CallsOf ==
    [Create |-> {"CreateTenant", "CreateConfiguredTable"},
     Get |-> {"GetTenant", "GetConfiguredTable"},
     Update |-> {"UpdateConfiguredTable"},
     Delete |-> {"DeleteTenant", "DeleteConfiguredTable"},
     List |-> {"ListTenants"}]

\* A fault is part of an operation when the operation issued the call
FaultMet(fault, calls) ==
    IF fault = NoFault THEN TRUE
    ELSE \E i \in 1..Len(calls) : calls[i] \in CallsOf[fault.call]

TenantCreate ==
    /\ resType = "Tenant"
    /\ state = Nil
    /\ nextId <= MaxTenants
    /\ \E name \in TenantNames, fault \in TenantCreateFaults, now \in Times :
        LET plan == [NullTenantModel EXCEPT !.tenant_name = name] IN
        \E r \in {CreateTenant(name, FaultAt(fault, "Create"), now)} :
        \E res \in {TenantCreateResult(plan, r)} :
            /\ tenants' = r.tenants
            /\ nextId' = r.nextId
            /\ state' = res.state
            /\ last' = Outcome("Create", fault, res.diag, res.err,
                               <<"CreateTenant">>, Ptr(plan), Nil)
    /\ UNCHANGED <<resType, tables>>

TenantRead ==
    /\ resType = "Tenant"
    /\ state # Nil
    /\ \E fault \in TenantGetFaults :
        \E f \in {FindTenantByName(Deref(state).tenant_name, FaultAt(fault, "Get"))} :
        \E res \in {TenantReadResult(Deref(state), f)} :
            /\ state' = res.state
            /\ last' = Outcome("Read", fault, res.diag, f.err, <<"GetTenant">>,
                               Nil, Nil)
    /\ UNCHANGED <<resType, tenants, tables, nextId>>

\* The record a Delete is called with: the engine's record, or, right after a
\* Delete that removed it, the record that Delete was given (a repeated Delete)
DeleteRequests ==
    IF state # Nil THEN {state}
    ELSE IF last.op = "Delete" THEN {last.req}
    ELSE {}

TenantDelete ==
    /\ resType = "Tenant"
    /\ \E req \in DeleteRequests, fault \in TenantDeleteFaults :
        LET r == DeleteTenant(Deref(req).tenant_name, FaultAt(fault, "Delete"))
            diag == TenantDeleteResult(r.err)
        IN  /\ tenants' = r.tenants
            /\ state' = IF diag = "none" THEN Nil ELSE state
            /\ last' = Outcome("Delete", fault, diag, r.err, <<"DeleteTenant">>,
                               req, Nil)
    /\ UNCHANGED <<resType, tables, nextId>>

\* resourceTenant.ImportState: ImportStatePassthroughID on path "id"
TenantImportState ==
    /\ resType = "Tenant"
    /\ state = Nil
    /\ \E id \in {t.TenantId : t \in tenants} \cup {t.TenantName : t \in tenants} :
        /\ state' = Ptr([NullTenantModel EXCEPT !.id = id])
        /\ last' = Outcome("Import", NoFault, "none", NoErr, <<>>, Nil, Nil)
    /\ UNCHANGED <<resType, tenants, tables, nextId>>

\* The engine drops the record without touching the remote (state rm)
Forget ==
    /\ state # Nil
    /\ state' = Nil
    /\ last' = Outcome("Forget", NoFault, "none", NoErr, <<>>, Nil, Nil)
    /\ UNCHANGED <<resType, tenants, tables, nextId>>

\* Out-of-band changes of the remote tenant
RemoteTenantChange ==
    /\ resType = "Tenant"
    /\ \E t \in tenants :
        \/ \E s \in SendingStatuses \ {t.SendingStatus} :
              tenants' = (tenants \ {t}) \cup {[t EXCEPT !.SendingStatus = s]}
        \/ tenants' = tenants \ {t}
    /\ last' = Outcome("RemoteChange", NoFault, "none", NoErr, <<>>, Nil, Nil)
    /\ UNCHANGED <<resType, state, tables, nextId>>

\* The sweeper enumerates the remote's tenants; the service pages them by
\* pageSize and may fail the fetch of one page
SweepTenants ==
    /\ resType = "Tenant"
    /\ \E pageSize \in PageSizes, failAt \in 0..MaxPages :
        \E res \in {sweepTenants(pageSize, failAt)} :
            /\ (failAt # 0 => res.err # NoErr)
            /\ last' = [Outcome("Sweep",
                                IF failAt = 0 THEN NoFault
                                ELSE [call |-> "List", kind |-> "error",
                                      page |-> failAt],
                                IF res.err = NoErr THEN "none" ELSE "error",
                                res.err,
                                [i \in 1..res.pages |-> "ListTenants"],
                                Nil, Nil)
                         EXCEPT !.handles = res.handles]
    /\ UNCHANGED <<resType, state, tenants, tables, nextId>>

\* The sweeper runs the resource's Delete on a handle the sweep returned
SweepDelete ==
    /\ resType = "Tenant"
    /\ last.op = "Sweep"
    /\ \E i \in 1..Len(last.handles), fault \in TenantDeleteFaults :
        LET req == SweepState(last.handles[i])
            r == DeleteTenant(req.tenant_name, FaultAt(fault, "Delete"))
            diag == TenantDeleteResult(r.err)
        IN  /\ tenants' = r.tenants
            /\ last' = Outcome("SweepDelete", fault, diag, r.err,
                               <<"DeleteTenant">>, Ptr(req), Nil)
    /\ UNCHANGED <<resType, state, tables, nextId>>

ConfiguredTableCreate ==
    /\ resType = "ConfiguredTable"
    /\ state = Nil
    /\ nextId <= MaxTables
    /\ \E plan \in TablePlans, fault \in TableCreateFaults, now \in {Earliest} :
        \E res \in {resourceConfiguredTableCreate(
                        [isNew |-> TRUE, old |-> NullTable, cur |-> plan],
                        fault, now)} :
            /\ FaultMet(fault, res.calls)
            /\ tables' = res.tables
            /\ nextId' = res.nextId
            /\ state' = StateOf(res.d)
            /\ last' = Outcome("Create", fault, res.diag, res.err, res.calls,
                               Ptr(plan), Nil)
    /\ UNCHANGED <<resType, tenants>>

ConfiguredTableRead ==
    /\ resType = "ConfiguredTable"
    /\ state # Nil
    /\ \E fault \in TableGetFaults :
        LET d == [isNew |-> FALSE, old |-> Deref(state), cur |-> Deref(state)] IN
        \E f \in {findConfiguredTableByID(tables, d.cur.id, FaultAt(fault, "Get"))} :
        \E res \in {resourceConfiguredTableRead(d, f)} :
            /\ state' = StateOf(res.d)
            /\ last' = Outcome("Read", fault, res.diag, f.err,
                               <<"GetConfiguredTable">>, Nil, Nil)
    /\ UNCHANGED <<resType, tenants, tables, nextId>>

\* Update is called with a configuration that differs from the record.  The
\* engine replaces the instance when a ForceNew attribute differs; the handler
\* takes any d, and is also followed, the remote answering, on one whose
\* allowed_columns differs.
ConfiguredTableUpdate ==
    /\ resType = "ConfiguredTable"
    /\ state # Nil
    /\ \E n \in TableNames, ds \in Descriptions, am \in AnalysisMethods,
          tg \in TagSets, fault \in TableUpdateFaults,
          now \in {Earliest} :
        \E cols \in {Deref(state).allowed_columns}
                    \cup (IF fault = NoFault THEN OtherColumnSets ELSE {}) :
        \E d \in {[isNew |-> FALSE, old |-> Deref(state),
                    cur |-> [Deref(state) EXCEPT
                                !.name = n, !.description = ds,
                                !.analysis_method = am,
                                !.allowed_columns = cols,
                                !.tags = tg, !.tags_all = tg]]} :
            /\ d.cur # d.old
            /\ \E res \in {resourceConfiguredTableUpdate(d, fault, now)} :
                /\ FaultMet(fault, res.calls)
                /\ tables' = res.tables
                /\ state' = StateOf(res.d)
                /\ last' = Outcome("Update", fault, res.diag, res.err, res.calls,
                                   Ptr(d.cur), res.sent)
    /\ UNCHANGED <<resType, tenants, nextId>>

ConfiguredTableDelete ==
    /\ resType = "ConfiguredTable"
    /\ \E req \in DeleteRequests, fault \in TableDeleteFaults :
        LET r == DeleteConfiguredTable(Deref(req).id, FaultAt(fault, "Delete"))
            diag == resourceConfiguredTableDelete(r.err)
        IN  /\ tables' = r.tables
            /\ state' = IF diag = "none" THEN Nil ELSE state
            /\ last' = Outcome("Delete", fault, diag, r.err,
                               <<"DeleteConfiguredTable">>, req, Nil)
    /\ UNCHANGED <<resType, tenants, nextId>>

\* schema.ImportStatePassthroughContext: the record holds the id alone
ConfiguredTableImport ==
    /\ resType = "ConfiguredTable"
    /\ state = Nil
    /\ \E c \in tables :
        /\ state' = Ptr([NullTable EXCEPT !.id = c.Id])
        /\ last' = Outcome("Import", NoFault, "none", NoErr, <<>>, Nil, Nil)
    /\ UNCHANGED <<resType, tenants, tables, nextId>>

\* Out-of-band changes of the instance's remote configured table
RemoteTableChange ==
    /\ resType = "ConfiguredTable"
    /\ state # Nil
    /\ \E c \in TableById(tables, Deref(state).id) :
        \/ \E ds \in Descriptions \ {c.Description},
              now \in {Earliest} :
              tables' = (tables \ {c})
                        \cup {[c EXCEPT !.Description = ds, !.UpdateTime = now]}
        \/ tables' = tables \ {c}
    /\ last' = Outcome("RemoteChange", NoFault, "none", NoErr, <<>>, Nil, Nil)
    /\ UNCHANGED <<resType, state, tenants, nextId>>

Init ==
    /\ resType \in {"Tenant", "ConfiguredTable"}
    /\ state = Nil
    /\ tenants = {}
    /\ tables = {}
    /\ nextId = 1
    /\ last = [op |-> "Init", fault |-> NoFault, diag |-> "none", err |-> NoErr,
               calls |-> <<>>, req |-> Nil, sent |-> Nil, handles |-> <<>>,
               prev |-> "-"]

Next ==
    \/ TenantCreate
    \/ TenantRead
    \/ TenantDelete
    \/ TenantImportState
    \/ Forget
    \/ RemoteTenantChange
    \/ SweepTenants
    \/ SweepDelete
    \/ ConfiguredTableCreate
    \/ ConfiguredTableRead
    \/ ConfiguredTableUpdate
    \/ ConfiguredTableDelete
    \/ ConfiguredTableImport
    \/ RemoteTableChange

Spec == Init /\ [][Next]_vars

----------------------------------------------------------------------------
(* Properties *)

\* The record Create produces for the remote tenant t
TenantRecordOf(t) ==
    [arn |-> t.TenantArn, created_timestamp |-> FormatRFC3339(t.CreatedTimestamp),
     id |-> t.TenantId, sending_status |-> t.SendingStatus,
     tenant_name |-> t.TenantName]

\* C1: Tenant Delete reports success whenever DeleteTenant answers not-found,
\* and then drops the record; a Delete that follows a successful Delete of the
\* same record and reaches the service reports no error; every other remote
\* error is reported as an error and the record is kept.
TenantDeleteIdempotent ==
    [][(resType = "Tenant" /\ last'.op = "Delete") =>
          /\ last'.err = "NotFoundException" => (last'.diag = "none" /\ state' = Nil)
          /\ last'.err \notin {NoErr, "NotFoundException"}
                => (last'.diag = "error" /\ state' = state)
          /\ (last.op = "Delete" /\ last.diag = "none" /\ last'.fault = NoFault)
                => (last'.err = "NotFoundException" /\ last'.diag = "none")]_vars

\* A Delete of a tenant that is already gone has ended without an error
TenantDeleteOfAbsentSucceeded ==
    /\ resType = "Tenant"
    /\ last.op = "Delete"
    /\ last.fault = NoFault
    /\ last.err = "NotFoundException"
    /\ last.diag = "none"
    /\ state = Nil

\* C2: ConfiguredTable Delete on an identifier whose remote table is absent,
\* the service answering not-found, returns success and not an error.
ConfiguredTableDeleteIdempotent ==
    [][(/\ resType = "ConfiguredTable"
        /\ last'.op = "Delete"
        /\ last'.fault = NoFault
        /\ TableById(tables, Deref(last'.req).id) = {})
          => last'.diag = "none"]_vars

\* C3: Tenant Read on a record whose remote tenant does not exist ends with
\* the record removed and a warning: no error, no crash, no record written.
TenantReadOfAbsentIsNotFound ==
    [][(/\ resType = "Tenant"
        /\ last'.op = "Read"
        /\ last'.fault = NoFault
        /\ state # Nil
        /\ Deref(state).tenant_name # ""
        /\ TenantByName(Deref(state).tenant_name) = {})
          => (last'.diag = "warning" /\ state' = Nil)]_vars

\* C4: ConfiguredTable Read on an existing record whose remote table is
\* absent clears the record's identifier and returns no error.
ConfiguredTableReadOfAbsentIsNotFound ==
    [][(/\ resType = "ConfiguredTable"
        /\ last'.op = "Read"
        /\ last'.fault = NoFault
        /\ state # Nil
        /\ TableById(tables, Deref(state).id) = {})
          => (last'.diag = "none" /\ state' = Nil)]_vars

\* C5: ImportState of an existing tenant's identifier followed by Read
\* succeeds and yields the record Create produces for that tenant.
TenantImportThenRead ==
    [][(/\ resType = "Tenant"
        /\ last.op = "Import"
        /\ last'.op = "Read"
        /\ last'.fault = NoFault)
          => /\ last'.diag = "none"
             /\ \E t \in tenants : /\ t.TenantId = Deref(state).id
                                   /\ state' = Ptr(TenantRecordOf(t))]_vars

\* C6: after a successful Tenant Create the saved record's id is the remote
\* TenantId, its arn the remote TenantArn, its created_timestamp the remote
\* CreatedTimestamp in RFC3339 form, and its tenant_name the plan's.
TenantCreateRecord ==
    (resType = "Tenant" /\ last.op = "Create" /\ last.diag = "none") =>
        /\ state # Nil
        /\ Deref(state).tenant_name = Deref(last.req).tenant_name
        /\ \E t \in TenantByName(Deref(last.req).tenant_name) :
              /\ Deref(state).id = t.TenantId
              /\ Deref(state).arn = t.TenantArn
              /\ Deref(state).created_timestamp = FormatRFC3339(t.CreatedTimestamp)

\* A Tenant Create has succeeded for a tenant created off a whole second
TenantCreated ==
    /\ resType = "Tenant"
    /\ last.op = "Create"
    /\ last.diag = "none"
    /\ state # Nil
    /\ \E t \in TenantByName(Deref(state).tenant_name) : t.CreatedTimestamp.nsec # 0

\* C7: when the remote create call reports success with a nil output or an
\* output without the payload, Create returns an error and no identifier or
\* record is kept for the instance.
EmptyCreateOutputIsFatal ==
    (/\ last.op = "Create"
     /\ last.fault.call = "Create"
     /\ last.fault.kind \in {"nilOut", "nilPayload"})
        => (last.diag = "error" /\ state = Nil)

\* A CreateTenant call has reported success with an output whose TenantId is nil
TenantCreatedWithoutPayload ==
    /\ resType = "Tenant"
    /\ last.op = "Create"
    /\ last.fault = [call |-> "Create", kind |-> "nilPayload"]
    /\ last.err = "empty output"
    /\ Deref(last.req).tenant_name \in {t.TenantName : t \in tenants}

\* C8: a Read that immediately follows a successful Create, the remote
\* answering, succeeds and leaves the record as Create returned it.
CreateThenReadNoDrift ==
    [][(/\ last.op = "Create"
        /\ last.diag = "none"
        /\ last'.op = "Read"
        /\ last'.fault = NoFault)
          => (last'.diag = "none" /\ state' = state)]_vars

\* A Read has succeeded right after the Create of a tenant created off a
\* whole second
TenantReadAfterCreate ==
    /\ resType = "Tenant"
    /\ last.op = "Read"
    /\ last.prev = "Create"
    /\ last.diag = "none"
    /\ state # Nil
    /\ \E t \in TenantByName(Deref(state).tenant_name) : t.CreatedTimestamp.nsec # 0

\* C9: after any successful Read every server-computed field of the record
\* equals the remote resource's current value (Tenant: id, arn,
\* created_timestamp, sending_status; ConfiguredTable: arn, create_time,
\* update_time).
ReadRefreshesComputedFields ==
    (last.op = "Read" /\ last.diag = "none" /\ state # Nil) =>
        IF resType = "Tenant"
        THEN \E t \in TenantByName(Deref(state).tenant_name) :
                /\ Deref(state).id = t.TenantId
                /\ Deref(state).arn = t.TenantArn
                /\ Deref(state).created_timestamp = FormatRFC3339(t.CreatedTimestamp)
                /\ Deref(state).sending_status = t.SendingStatus
        ELSE \E c \in TableById(tables, Deref(state).id) :
                /\ Deref(state).arn = c.Arn
                /\ Deref(state).create_time = FormatRFC3339(c.CreateTime)
                /\ Deref(state).update_time = FormatRFC3339(c.UpdateTime)

\* C10: a ConfiguredTable Update whose desired state differs from the
\* previous state in tags and tags_all alone issues no UpdateConfiguredTable
\* call and leaves the remote table as it is.
TagOnlyUpdateIssuesNoCall ==
    [][(/\ resType = "ConfiguredTable"
        /\ last'.op = "Update"
        /\ state # Nil
        /\ \A k \in DOMAIN NullTable \ {"tags", "tags_all"} :
              Deref(last'.req)[k] = Deref(state)[k])
          => /\ \A i \in 1..Len(last'.calls) : last'.calls[i] # "UpdateConfiguredTable"
             /\ last'.sent = Nil
             /\ tables' = tables]_vars

\* An Update that changed the tags alone has run
TagOnlyUpdateDone ==
    /\ resType = "ConfiguredTable"
    /\ last.op = "Update"
    /\ last.fault = NoFault
    /\ last.diag = "none"
    /\ last.calls = <<"GetConfiguredTable">>
    /\ state # Nil
    /\ Deref(state).tags = "k=v"

\* C11: the input of every UpdateConfiguredTable call a ConfiguredTable Update
\* issues leaves the immutable fields (allowed_columns, table_reference) out,
\* also when allowed_columns differs between desired and previous state.
UpdateRequestOmitsImmutable ==
    (resType = "ConfiguredTable" /\ last.op = "Update" /\ last.sent # Nil) =>
        /\ Deref(last.sent).AllowedColumns = Nil
        /\ Deref(last.sent).TableReference = Nil

\* An Update whose desired allowed_columns differed has issued its request
\* and has read the remote's columns back
UpdateWithOtherColumnsDone ==
    /\ resType = "ConfiguredTable"
    /\ last.op = "Update"
    /\ last.diag = "none"
    /\ last.sent # Nil
    /\ state # Nil
    /\ Deref(last.req).allowed_columns # Deref(state).allowed_columns

\* C12: a sweep that ends without error has fetched every page and returns
\* exactly one handle for each remote tenant; a sweep in which a page fetch
\* failed returns the error and no handle, whatever earlier pages held.
SweepAllOrNothing ==
    (resType = "Tenant" /\ last.op = "Sweep") =>
        IF last.err = NoErr
        THEN /\ last.diag = "none"
             /\ Len(last.handles) = Cardinality(tenants)
             /\ {last.handles[i].id : i \in 1..Len(last.handles)}
                   = {t.TenantId : t \in tenants}
        ELSE /\ last.diag = "error"
             /\ last.handles = <<>>

\* A sweep over two tenants in pages of one has failed at its second page
SweepFailedOnSecondPage ==
    /\ resType = "Tenant"
    /\ last.op = "Sweep"
    /\ last.fault = [call |-> "List", kind |-> "error", page |-> 2]
    /\ last.calls = <<"ListTenants", "ListTenants">>
    /\ last.err # NoErr
    /\ Cardinality(tenants) = 2

\* C13: running Delete on a handle the sweep returned, the service answering,
\* issues DeleteTenant for the tenant the handle was made for: Delete ends
\* without error and that tenant is gone.
SweepHandleDeletable ==
    [][(resType = "Tenant" /\ last'.op = "SweepDelete" /\ last'.fault = NoFault)
          => /\ last'.diag = "none"
             /\ \A t \in tenants :
                   t.TenantId = Deref(last'.req).id => t \notin tenants']_vars

\* C14: right after a successful Tenant Create, and after every successful
\* Read, FindTenantByName on the record's tenant_name returns that tenant
\* without error; right after a successful Delete, FindTenantByName on the
\* deleted record's tenant_name returns no tenant and an error that is
\* classified as NotFound.
TenantObservable ==
    resType = "Tenant" =>
        /\ (last.op \in {"Create", "Read"} /\ last.diag = "none" /\ state # Nil) =>
              LET f == FindTenantByName(Deref(state).tenant_name, "ok")
              IN  /\ f.err = NoErr
                  /\ f.out # Nil
                  /\ Deref(f.out).TenantName = Deref(state).tenant_name
        /\ (last.op = "Delete" /\ last.diag = "none") =>
              LET f == FindTenantByName(Deref(last.req).tenant_name, "ok")
              IN  /\ f.out = Nil
                  /\ f.err # NoErr
                  /\ NotFound(f.err)

\* A Delete has removed the remote tenant of its record
TenantDeleted ==
    /\ resType = "Tenant"
    /\ last.op = "Delete"
    /\ last.diag = "none"
    /\ last.err = NoErr
    /\ Deref(last.req).id # ""
    /\ TenantByName(Deref(last.req).tenant_name) = {}

\* C15: a ConfiguredTable Create whose analysis_method is not DIRECT_QUERY
\* ends with the validation error before any remote call: no call is issued,
\* the remote tables are as they were, and no record is kept.
InvalidAnalysisMethodFailsEarly ==
    [][(/\ resType = "ConfiguredTable"
        /\ last'.op = "Create"
        /\ Deref(last'.req).analysis_method # "DIRECT_QUERY")
          => /\ last'.diag = "error"
             /\ last'.err = "Invalid analysis method"
             /\ last'.calls = <<>>
             /\ tables' = tables
             /\ nextId' = nextId
             /\ state' = Nil]_vars

\* A Create with the analysis method AGGREGATION has been refused
InvalidAnalysisMethodRefused ==
    /\ resType = "ConfiguredTable"
    /\ last.op = "Create"
    /\ Deref(last.req).analysis_method = "AGGREGATION"
    /\ last.diag = "error"
    /\ last.calls = <<>>
    /\ state = Nil

\* C16: a Read, of a tenant or of a configured table, that ends in an error
\* or a crash leaves the record it was given as it was.
ReadErrorLeavesRecord ==
    [][(last'.op = "Read" /\ last'.diag \in {"error", "panic"})
          => state' = state]_vars

\* A Read of a configured table's record has ended in an error
ConfiguredTableReadFailed ==
    /\ resType = "ConfiguredTable"
    /\ last.op = "Read"
    /\ last.diag = "error"
    /\ last.err # NoErr
    /\ state # Nil
    /\ Deref(state).arn # ""

\* C17: the request of every UpdateConfiguredTable call an Update issues
\* carries a mutable field only if it changed, carries every one of name,
\* description and analysis_method that differs between desired and previous
\* state, and, the remote answering, the Read that follows leaves the desired
\* value of each of them in the record.
UpdateCarriesChangedFields ==
    [][(/\ resType = "ConfiguredTable"
        /\ last'.op = "Update"
        /\ last'.fault = NoFault
        /\ last'.sent # Nil
        /\ state # Nil)
          => LET old == Deref(state)
                 new == Deref(last'.req)
                 input == Deref(last'.sent)
             IN  /\ input.Name = IF new.name # old.name THEN Ptr(new.name) ELSE Nil
                 /\ input.Description = IF new.description # old.description
                                        THEN Ptr(new.description) ELSE Nil
                 /\ input.AnalysisMethod = IF new.analysis_method # old.analysis_method
                                           THEN Ptr(new.analysis_method) ELSE Nil
                 /\ state' # Nil
                 /\ Deref(state').name = new.name
                 /\ Deref(state').description = new.description
                 /\ Deref(state').analysis_method = new.analysis_method]_vars

\* C18: whenever Create, of a tenant or of a configured table, returns an
\* error, the instance has no record and so no identifier.
CreateErrorKeepsNoRecord ==
    (last.op = "Create" /\ last.diag = "error") => state = Nil

====
